---------------------------- MODULE Spec2Model ----------------------------
(***************************************************************************)
(* Model of src/app.py: the credit-card validator (CreditCardValidator),   *)
(* its interactive loop (main), its sample run (test_cards) and the        *)
(* script's entry point.                                                   *)
(*                                                                         *)
(* A Python string is a sequence of one-character strings.  The pure       *)
(* methods are operators computed the way the code computes them; the      *)
(* regular expressions of card_patterns are translated position by         *)
(* position.  The cleaned number holds only the characters 0-9, so the     *)
(* newline that Python's $ tolerates at the end never occurs.              *)
(***************************************************************************)
EXTENDS Integers, Sequences, FiniteSets, TLC

VARIABLES pc, card_input, result, printed, idx, arg, ret, orig

vars == <<pc, card_input, result, printed, idx, arg, ret, orig>>

---------------------------------------------------------------------------
(* Characters and strings *)

DigitChars == <<"0", "1", "2", "3", "4", "5", "6", "7", "8", "9">>

DigitSet == {DigitChars[i] : i \in 1..10}

\* str of a tuple of decimal digits: S(<<4, 1>>) is the string "41"
S(t) == [i \in 1..Len(t) |-> DigitChars[t[i] + 1]]

\* Python's None
None == "<None>"

\* int(d) for a one-character decimal string d
int(d) == CHOOSE v \in 0..9 : DigitChars[v + 1] = d

RECURSIVE str_int(_)
\* str(n) for an integer n >= 0
str_int(n) == IF n < 10 THEN <<DigitChars[n + 1]>>
              ELSE Append(str_int(n \div 10), DigitChars[(n % 10) + 1])

RECURSIVE sum(_)
\* the builtin sum over a list of integers
sum(l) == IF l = <<>> THEN 0 ELSE l[1] + sum(Tail(l))

\* re.sub(r'[^0-9]', '', str(card_number))
clean_card_number(card_number) == SelectSeq(card_number, LAMBDA c : c \in DigitSet)

\* str.isdigit(): every character a digit and at least one character
isdigit(s) == Len(s) > 0 /\ \A i \in 1..Len(s) : s[i] \in DigitSet

---------------------------------------------------------------------------
(* luhn_algorithm *)

\* digits_of(number): [int(d) for d in str(number)], number a digit string
digits_of(number) == [i \in 1..Len(number) |-> int(number[i])]

\* the slice taken from the front instead: l[k-1::2]
slice_front(l, k) == [j \in 1..((Len(l) - k + 2) \div 2) |-> l[k + 2 * (j - 1)]]

\* l[-k::-2] for k = 1, 2: from the k-th element from the end, every second
\* one towards the front
slice_back(l, k) == [j \in 1..((Len(l) - k + 2) \div 2) |-> l[Len(l) - k + 1 - 2 * (j - 1)]]

\* the doubled digit added as it is, its digits not summed
doubled_term_nosum(digit) == digit * 2

\* the term one element of even_digits adds: sum(digits_of(digit * 2))
doubled_term(digit) == sum(digits_of(str_int(digit * 2)))

RECURSIVE add_even(_, _)
\* the for loop over even_digits
add_even(checksum, even_digits) ==
    IF even_digits = <<>> THEN checksum
    ELSE add_even(checksum + doubled_term(even_digits[1]), Tail(even_digits))

luhn_algorithm(card_number) ==
    LET digits == digits_of(card_number)
        odd_digits == slice_back(digits, 1)
        even_digits == slice_back(digits, 2)
        checksum == add_even(sum(odd_digits), even_digits)
    IN  checksum % 10 = 0

---------------------------------------------------------------------------
(* card_patterns and identify_card_brand *)

\* [0-9]{n} (or \d{n}) matched at position i
D(s, i, n) == i + n - 1 <= Len(s) /\ \A k \in i..(i + n - 1) : s[k] \in DigitSet

\* one character of the class cls at position i
C(s, i, cls) == i <= Len(s) /\ s[i] \in {DigitChars[d + 1] : d \in cls}

\* the literal digits lit matched at position i
L(s, i, lit) == i + Len(lit) - 1 <= Len(s) /\ \A k \in 1..Len(lit) : s[i + k - 1] = DigitChars[lit[k] + 1]

\* $ at position i: the string ends before i
End(s, i) == i = Len(s) + 1

Unidentified == "Bandeira nao identificada"

\* the keys of card_patterns in insertion order, with Diners Club moved
\* before MasterCard
card_patterns_reordered ==
    <<"Visa", "Diners Club", "MasterCard", "American Express", "Discover",
      "enRoute", "JCB", "Voyager", "HiperCard", "Aura">>

\* the keys of card_patterns in insertion order (the order .items() yields)
card_patterns ==
    <<"Visa", "MasterCard", "American Express", "Diners Club", "Discover",
      "enRoute", "JCB", "Voyager", "HiperCard", "Aura">>

\* re.match(self.card_patterns[brand], s)
re_match(brand, s) ==
    CASE brand = "Visa" ->
           L(s, 1, <<4>>) /\ D(s, 2, 12) /\ (End(s, 14) \/ (D(s, 14, 3) /\ End(s, 17)))
      [] brand = "MasterCard" ->
           \/ L(s, 1, <<5>>) /\ C(s, 2, 1..5) /\ D(s, 3, 14) /\ End(s, 17)
           \/ L(s, 1, <<2>>) /\ C(s, 2, 2..7) /\ D(s, 3, 14) /\ End(s, 17)
      [] brand = "American Express" ->
           L(s, 1, <<3>>) /\ C(s, 2, {4, 7}) /\ D(s, 3, 13) /\ End(s, 16)
      [] brand = "Diners Club" ->
           \/ L(s, 1, <<3>>) /\ C(s, 2, {0, 6, 8, 9}) /\ D(s, 3, 11) /\ End(s, 14)
           \/ L(s, 1, <<5, 4>>) /\ D(s, 3, 14) /\ End(s, 17)
           \/ L(s, 1, <<5, 5>>) /\ D(s, 3, 14) /\ End(s, 17)
      [] brand = "Discover" ->
           /\ L(s, 1, <<6>>)
           /\ \/ L(s, 2, <<0, 1, 1>>)
              \/ L(s, 2, <<5>>) /\ D(s, 3, 2)
           /\ D(s, 5, 12) /\ End(s, 17)
      [] brand = "enRoute" ->
           /\ L(s, 1, <<2>>)
           /\ (L(s, 2, <<0, 1, 4>>) \/ L(s, 2, <<1, 4, 9>>))
           /\ D(s, 5, 11) /\ End(s, 16)
      [] brand = "JCB" ->
           \/ L(s, 1, <<2, 1, 3, 1>>) /\ D(s, 5, 11) /\ End(s, 16)
           \/ L(s, 1, <<1, 8, 0, 0>>) /\ D(s, 5, 11) /\ End(s, 16)
           \/ L(s, 1, <<3, 5>>) /\ D(s, 3, 3) /\ D(s, 6, 11) /\ End(s, 17)
      [] brand = "Voyager" ->
           L(s, 1, <<8, 6, 9, 9>>) /\ D(s, 5, 11) /\ End(s, 16)
      [] brand = "HiperCard" ->
           \/ /\ L(s, 1, <<6, 0, 6, 2, 8, 2>>) /\ D(s, 7, 10)
              /\ (End(s, 17) \/ (D(s, 17, 3) /\ End(s, 20)))
           \/ L(s, 1, <<3, 8, 4, 1>>) /\ D(s, 5, 15) /\ End(s, 20)
      [] brand = "Aura" ->
           L(s, 1, <<5, 0>>) /\ D(s, 3, 14) /\ End(s, 17)

identify_card_brand(card_number) ==
    LET clean_number == clean_card_number(card_number)
        hits == {i \in 1..Len(card_patterns) : re_match(card_patterns[i], clean_number)}
    IN  IF hits = {} THEN Unidentified
        ELSE card_patterns[CHOOSE i \in hits : \A j \in hits : i <= j]

---------------------------------------------------------------------------
(* validate_card *)

MinDigits == 13

MaxDigits == 19

ErrOnlyDigits == "Numero deve conter apenas digitos"

ErrLength == "Numero deve ter entre 13 e 19 digitos"

ErrLuhn == "Numero invalido pelo algoritmo de Luhn"

ErrBrand == "Bandeira nao suportada"

\* the length test with its lower bound off by one
length_out_of_range_low(clean_number) ==
    Len(clean_number) < MinDigits - 1 \/ Len(clean_number) > MaxDigits

\* len(clean_number) < 13 or len(clean_number) > 19
length_out_of_range(clean_number) ==
    Len(clean_number) < MinDigits \/ Len(clean_number) > MaxDigits

\* the error expression with the brand tested before the checksum
error_of_brand_first(is_luhn_valid, brand) ==
    IF is_luhn_valid /\ brand # Unidentified THEN None
    ELSE IF brand = Unidentified THEN ErrBrand
    ELSE ErrLuhn

\* None if is_luhn_valid and brand != "..." else '...Luhn' if not is_luhn_valid
\* else 'Bandeira nao suportada'
error_of(is_luhn_valid, brand) ==
    IF is_luhn_valid /\ brand # Unidentified THEN None
    ELSE IF ~is_luhn_valid THEN ErrLuhn
    ELSE ErrBrand

validate_card(card_number) ==
    LET clean_number == clean_card_number(card_number)
    IN  IF ~isdigit(clean_number)
        THEN [valid |-> FALSE, brand |-> None, error |-> ErrOnlyDigits]
        ELSE IF length_out_of_range(clean_number)
        THEN [valid |-> FALSE, brand |-> None, error |-> ErrLength]
        ELSE LET brand == identify_card_brand(clean_number)
                 is_luhn_valid == luhn_algorithm(clean_number)
             IN  [valid |-> is_luhn_valid /\ brand # Unidentified,
                  brand |-> IF brand # Unidentified THEN brand ELSE None,
                  luhn_valid |-> is_luhn_valid,
                  error |-> error_of(is_luhn_valid, brand)]

---------------------------------------------------------------------------
(* main: the interactive loop *)

UpperChars == <<"A", "E", "I", "Q", "R", "S", "T", "U", "X">>

LowerChars == <<"a", "e", "i", "q", "r", "s", "t", "u", "x">>

\* str.lower(), over the letters the input lines use
lower(s) ==
    [i \in 1..Len(s) |->
        IF \E k \in 1..Len(UpperChars) : UpperChars[k] = s[i]
        THEN LowerChars[CHOOSE k \in 1..Len(UpperChars) : UpperChars[k] = s[i]]
        ELSE s[i]]

Whitespace == {" ", "\t"}

RECURSIVE lstrip(_)
lstrip(s) == IF s # <<>> /\ s[1] \in Whitespace THEN lstrip(Tail(s)) ELSE s

RECURSIVE rstrip(_)
rstrip(s) == IF s # <<>> /\ s[Len(s)] \in Whitespace
             THEN rstrip(SubSeq(s, 1, Len(s) - 1)) ELSE s

\* str.strip()
strip(s) == rstrip(lstrip(s))

\* ['sair', 'exit', 'quit']
ExitWords == {<<"s", "a", "i", "r">>, <<"e", "x", "i", "t">>, <<"q", "u", "i", "t">>}

\* truth value of a field that holds None or a string
truthy(v) == v # None /\ v # ""

\* the lines main prints before it reads result['luhn_valid'] (lines 120-132)
render_head(r) ==
    <<<<"sep", "">>, <<"RESULTADO DA VALIDACAO", "">>, <<"sep", "">>>> \o
    (IF r.valid
     THEN <<<<"Cartao VALIDO", "">>, <<"Bandeira", r.brand>>>>
     ELSE <<<<"Cartao INVALIDO", "">>>> \o
          (IF truthy(r.brand) THEN <<<<"Bandeira identificada", r.brand>>>> ELSE <<>>) \o
          (IF truthy(r.error) THEN <<<<"Erro", r.error>>>> ELSE <<>>))

\* the Luhn line and the closing separator (lines 134-135)
render_luhn(r) ==
    <<<<"Validacao Luhn", IF r.luhn_valid THEN "Passou" ELSE "Falhou">>, <<"sep", "">>>>

---------------------------------------------------------------------------
(* test_cards *)

test_numbers ==
    << S(<<4,5,3,2,0,1,5,1,1,2,8,3,0,3,6,6>>),
       S(<<5,5,5,5,5,5,5,5,5,5,5,5,4,4,4,4>>),
       S(<<3,7,8,2,8,2,2,4,6,3,1,0,0,0,5>>),
       S(<<3,0,5,6,9,3,0,9,0,2,5,9,0,4>>),
       S(<<6,0,1,1,1,1,1,1,1,1,1,1,1,1,1,7>>),
       S(<<4,1,1,1,1,1,1,1,1,1,1,1,1,1,1,1>>),
       S(<<5,1,0,5,1,0,5,1,0,5,1,0,5,1,0,0>>) >>

\* the brand the comment beside each test number names
test_brands ==
    <<"Visa", "MasterCard", "American Express", "Diners Club", "Discover",
      "Visa", "MasterCard">>

\* the three lines test_cards prints for one card (lines 158-162)
render_test(card, r) ==
    << <<"Cartao", card>>,
       <<"Status", IF r.valid THEN "VALIDO" ELSE "INVALIDO">>,
       <<"Bandeira", IF truthy(r.brand) THEN r.brand ELSE "Nao identificada">> >>

---------------------------------------------------------------------------
(* Inputs *)

\* the longest digit string typed at the prompt: one more than MaxDigits
MaxTyped == 20

\* digits every head of the classifier's inputs has
HeadLen == 3

\* the longest digit string handed to luhn_algorithm exhaustively
MaxLuhnLen == 4

\* every tuple of n decimal digits
DigitStrings(n) == [1..n -> 0..9]

\* the digit string of length n that starts with head (cut to n), goes on
\* with the digit fill and ends with the digit last
Num(head, n, fill, last) ==
    [i \in 1..n |->
        IF i <= Len(head) /\ i < n THEN DigitChars[head[i] + 1]
        ELSE IF i = n THEN DigitChars[last + 1]
        ELSE DigitChars[fill + 1]]

RECURSIVE Grouped(_, _)
\* s with the separator sep after every fourth character
Grouped(s, sep) ==
    IF Len(s) <= 4 THEN s
    ELSE SubSeq(s, 1, 4) \o <<sep>> \o Grouped(SubSeq(s, 5, Len(s)), sep)

\* one head per brand rule, and heads no rule has
TypedHeads ==
    { <<4>>, <<5, 1>>, <<5, 5>>, <<2, 2>>, <<3, 4>>, <<3, 0, 5>>, <<3, 6>>,
      <<6, 0, 1, 1>>, <<6, 5>>, <<2, 0, 1, 4>>, <<2, 1, 3, 1>>, <<3, 5>>,
      <<8, 6, 9, 9>>, <<6, 0, 6, 2, 8, 2>>, <<3, 8, 4, 1>>, <<5, 0>>,
      <<1, 2>>, <<9>>, <<0>>, <<7, 7>> }

TypedNumbers ==
    {Num(h, n, 0, c) : h \in TypedHeads, n \in 0..MaxTyped, c \in 0..9}
    \cup {test_numbers[i] : i \in 1..Len(test_numbers)}
    \cup {S(<<4,5,3,2,0,1,5,1,1,2,8,3,0,3,6,7>>), S(<<1,2,3,4,5,6,7,8,9,0,1,2,3>>)}

\* the lines typed at the prompt of main
InputLines ==
    TypedNumbers
    \cup {Grouped(s, "-") : s \in TypedNumbers}
    \cup {<<" ">> \o Grouped(s, " ") \o <<" ">> : s \in TypedNumbers}
    \cup ExitWords
    \cup { <<"S", "A", "I", "R">>, <<" ", "E", "x", "i", "t", " ">>, <<"q", "u", "i", "t", "x">>,
           <<"a", "b", "c">>, <<"-">>, <<"a", "b", "c", "-", "1", "2", "3">>, <<" ", " ">> }

\* the answers to "Digite sua escolha (1 ou 2)"
Choices == {<<"1">>, <<"2">>, <<" ", "2", " ">>, <<>>, <<"x">>}

\* heads of four to six digits that the rules name, and their neighbours
SpecialHeads ==
    { <<6, 0, 1, 1>>, <<6, 0, 1, 0>>, <<6, 0, 1, 2>>, <<2, 0, 1, 4>>, <<2, 0, 1, 5>>,
      <<2, 1, 4, 9>>, <<2, 1, 4, 8>>, <<2, 1, 3, 1>>, <<2, 1, 3, 0>>, <<1, 8, 0, 0>>,
      <<1, 8, 0, 1>>, <<8, 6, 9, 9>>, <<8, 6, 9, 8>>, <<3, 8, 4, 1>>, <<3, 8, 4, 0>>,
      <<6, 0, 6, 2, 8, 2>>, <<6, 0, 6, 2, 8, 3>>, <<6, 0, 6, 2, 8>>, <<6, 0, 6, 2, 7, 2>> }

\* the strings handed to identify_card_brand
BrandInputs ==
    {Num(h, n, f, f) : h \in DigitStrings(HeadLen) \cup SpecialHeads,
                       n \in MinDigits..MaxDigits, f \in {0, 9}}
    \cup {test_numbers[i] : i \in 1..Len(test_numbers)}
    \cup {Grouped(test_numbers[i], " ") : i \in 1..Len(test_numbers)}

\* the strings of n digits handed to luhn_algorithm
LuhnInputs(n) == {S(t) : t \in DigitStrings(n)}

\* the card numbers handed to luhn_algorithm
LuhnVectors ==
    {test_numbers[i] : i \in 1..Len(test_numbers)}
    \cup {S(<<4,5,3,2,0,1,5,1,1,2,8,3,0,3,6,7>>)}

---------------------------------------------------------------------------
(* The script: the choice, main's loop, test_cards *)

NoResult == [valid |-> FALSE]

Init ==
    /\ pc = "choice"
    /\ card_input = <<>>
    /\ result = NoResult
    /\ printed = <<>>
    /\ idx = 0
    /\ arg = <<>>
    /\ ret = None
    /\ orig = <<>>

\* choice = input(...).strip(); "2" runs test_cards, anything else main
Choose(line) ==
    /\ pc = "choice"
    /\ pc' = IF strip(line) = <<"2">> THEN "test_cards" ELSE "main"
    /\ idx' = IF strip(line) = <<"2">> THEN 1 ELSE 0
    /\ UNCHANGED <<card_input, result, printed, arg, ret, orig>>

\* card_input = input("Numero: ").strip()
ReadLine(line) ==
    /\ pc = "main"
    /\ card_input' = strip(line)
    /\ pc' = "main_line"
    /\ UNCHANGED <<result, printed, idx, arg, ret, orig>>

\* if card_input.lower() in ['sair', 'exit', 'quit']: break
Quit ==
    /\ pc = "main_line"
    /\ lower(card_input) \in ExitWords
    /\ printed' = <<<<"Encerrando o programa...", "">>>>
    /\ pc' = "exit"
    /\ UNCHANGED <<card_input, result, idx, arg, ret, orig>>

\* if not card_input: continue
EmptyLine ==
    /\ pc = "main_line"
    /\ lower(card_input) \notin ExitWords
    /\ card_input = <<>>
    /\ printed' = <<<<"Por favor, digite um numero valido.", "">>>>
    /\ pc' = "main_bottom"
    /\ UNCHANGED <<card_input, result, idx, arg, ret, orig>>

\* result = validator.validate_card(card_input)
Validate ==
    /\ pc = "main_line"
    /\ lower(card_input) \notin ExitWords
    /\ card_input # <<>>
    /\ result' = validate_card(card_input)
    /\ pc' = "main_render"
    /\ UNCHANGED <<card_input, printed, idx, arg, ret, orig>>

\* lines 120-135: the prints; result['luhn_valid'] raises KeyError when the
\* dict has no such key, and the exception ends the program
Render ==
    /\ pc = "main_render"
    /\ IF "luhn_valid" \in DOMAIN result
       THEN /\ printed' = render_head(result) \o render_luhn(result)
            /\ pc' = "main_bottom"
       ELSE /\ printed' = render_head(result)
            /\ pc' = "error"
    /\ UNCHANGED <<card_input, result, idx, arg, ret, orig>>

\* back to while True; card_input and result are assigned before they are
\* read again, and the transcript starts anew
LoopBack ==
    /\ pc = "main_bottom"
    /\ pc' = "main"
    /\ card_input' = <<>>
    /\ result' = NoResult
    /\ printed' = <<>>
    /\ UNCHANGED <<idx, arg, ret, orig>>

\* one turn of test_cards' for loop
TestCard ==
    /\ pc = "test_cards"
    /\ idx <= Len(test_numbers)
    /\ result' = validate_card(test_numbers[idx])
    /\ printed' = render_test(test_numbers[idx], result')
    /\ idx' = idx + 1
    /\ UNCHANGED <<pc, card_input, arg, ret, orig>>

\* the for loop is exhausted
TestDone ==
    /\ pc = "test_cards"
    /\ idx > Len(test_numbers)
    /\ pc' = "exit"
    /\ UNCHANGED <<card_input, result, printed, idx, arg, ret, orig>>

Next ==
    \/ \E line \in Choices : Choose(line)
    \/ \E line \in InputLines : ReadLine(line)
    \/ Quit
    \/ EmptyLine
    \/ Validate
    \/ Render
    \/ LoopBack
    \/ TestCard
    \/ TestDone

Spec == Init /\ [][Next]_vars

---------------------------------------------------------------------------
(* luhn_algorithm applied to every input, and to every single-digit change
   of an input it accepts *)

InitLuhn ==
    /\ pc = "luhn_call"
    /\ \/ \E n \in 0..MaxLuhnLen : arg \in LuhnInputs(n)
       \/ arg \in LuhnVectors
    /\ ret = None
    /\ orig = <<>>
    /\ card_input = <<>>
    /\ result = NoResult
    /\ printed = <<>>
    /\ idx = 0

LuhnReturn ==
    /\ pc = "luhn_call"
    /\ ret' = luhn_algorithm(arg)
    /\ pc' = "luhn_ret"
    /\ UNCHANGED <<card_input, result, printed, idx, arg, orig>>

\* the accepted string with the digit at position p replaced by d
AlterDigit(p, d) ==
    /\ pc = "luhn_ret"
    /\ ret = TRUE
    /\ DigitChars[d + 1] # arg[p]
    /\ orig' = arg
    /\ arg' = [arg EXCEPT ![p] = DigitChars[d + 1]]
    /\ ret' = luhn_algorithm(arg')
    /\ pc' = "luhn_altered"
    /\ UNCHANGED <<card_input, result, printed, idx>>

NextLuhn ==
    \/ LuhnReturn
    \/ \E p \in 1..Len(arg), d \in 0..9 : AlterDigit(p, d)

SpecLuhn == InitLuhn /\ [][NextLuhn]_vars

---------------------------------------------------------------------------
(* identify_card_brand applied to every input *)

InitBrand ==
    /\ pc = "brand_call"
    /\ arg \in BrandInputs
    /\ ret = None
    /\ orig = <<>>
    /\ card_input = <<>>
    /\ result = NoResult
    /\ printed = <<>>
    /\ idx = 0

IdentifyReturn ==
    /\ pc = "brand_call"
    /\ ret' = identify_card_brand(arg)
    /\ pc' = "brand_ret"
    /\ UNCHANGED <<card_input, result, printed, idx, arg, orig>>

NextBrand == IdentifyReturn

SpecBrand == InitBrand /\ [][NextBrand]_vars

---------------------------------------------------------------------------
(* Properties of validate_card and of the script (Spec) *)

\* validate_card has just returned result
Returned == pc = "main_render" \/ (pc = "test_cards" /\ idx > 1)

\* the digits of the line validate_card was given in main
CleanInput == clean_card_number(card_input)

InRange(n) == Len(n) >= 13 /\ Len(n) <= 19

AllFields == {"valid", "brand", "luhn_valid", "error"}

\* C1: every record validate_card returns carries the four fields valid,
\* brand, luhn_valid and error, luhn_valid is a boolean, and valid is true
\* exactly when luhn_valid is true and a brand was identified.
C1_ResultHasAllFields ==
    Returned =>
        /\ DOMAIN result = AllFields
        /\ result.luhn_valid \in BOOLEAN
        /\ result.valid = (result.luhn_valid /\ result.brand # None)

\* C5: whenever the cleaned input has fewer than 13 or more than 19 digits,
\* no digits at all included, validate_card returns valid = false with the
\* length error.
C5_LengthErrorAlsoWhenEmpty ==
    (pc = "main_render" /\ ~InRange(CleanInput)) =>
        (result.valid = FALSE /\ result.error = ErrLength)

\* C5 (amended): whenever the cleaned input has 1 to 12 or more than 19
\* digits, validate_card returns valid = false with the length error,
\* whatever the checksum or the brand of that string; with no digit at all
\* it returns valid = false with the only-digits error.
C5_LengthError ==
    (pc = "main_render" /\ ~InRange(CleanInput)) =>
        /\ result.valid = FALSE
        /\ result.brand = None
        /\ result.error = IF Len(CleanInput) = 0 THEN ErrOnlyDigits ELSE ErrLength

\* a 12-digit string with a passing checksum is refused for its length
C5_Witness ==
    /\ pc = "main_render"
    /\ Len(CleanInput) = 12
    /\ luhn_algorithm(CleanInput)
    /\ result.error = ErrLength

\* C6: for an input of 13 to 19 digits the error is the Luhn error whenever
\* the checksum fails, also when no brand matched; it is the brand error
\* only when the checksum passed and no brand matched; it is None exactly
\* when valid is true.  Outside 13 to 19 digits the error is a structural one.
C6_ErrorPriority ==
    pc = "main_render" =>
        IF InRange(CleanInput)
        THEN LET luhn == luhn_algorithm(CleanInput)
                 found == identify_card_brand(CleanInput) # Unidentified
             IN  /\ (~luhn => result.error = ErrLuhn)
                 /\ (result.error = ErrBrand <=> (luhn /\ ~found))
                 /\ (result.error = None <=> result.valid)
                 /\ (result.valid <=> (luhn /\ found))
        ELSE result.error \in {ErrOnlyDigits, ErrLength}

\* an input of 13 to 19 digits with a failing checksum and no brand gets the
\* Luhn error
C6_Witness ==
    /\ pc = "main_render"
    /\ InRange(CleanInput)
    /\ ~luhn_algorithm(CleanInput)
    /\ identify_card_brand(CleanInput) = Unidentified
    /\ result.error = ErrLuhn

\* C8: validate_card accepts every number of test_numbers with the brand the
\* list names for it.
C8_TestNumbersAccepted ==
    (pc = "test_cards" /\ idx > 1) =>
        (result.valid /\ result.brand = test_brands[idx - 1])

\* C10: in main's loop every line that is neither empty nor an exit word is
\* validated and rendered in full, Luhn line included, before the loop goes
\* back to the prompt; the loop ends only on an exit word and never with an
\* error.
C10_LoopNeverFails ==
    /\ pc # "error"
    /\ (pc = "exit" /\ idx = 0) => lower(card_input) \in ExitWords
    /\ (pc = "main_bottom" /\ card_input # <<>>) =>
           /\ printed[Len(printed) - 1][1] = "Validacao Luhn"
           /\ printed = render_head(result) \o render_luhn(result)

---------------------------------------------------------------------------
(* Properties of luhn_algorithm (SpecLuhn) *)

\* the value of the digit at position p counted from the right end
DigitFromRight(s, p) == CHOOSE v \in 0..9 : DigitChars[v + 1] = s[Len(s) - p + 1]

RECURSIVE RefTotalUpTo(_, _)
\* the reference total over the positions 1..p from the right
RefTotalUpTo(s, p) ==
    IF p = 0 THEN 0
    ELSE LET d == DigitFromRight(s, p)
         IN  RefTotalUpTo(s, p - 1) +
             (IF p % 2 = 1 THEN d
              ELSE IF 2 * d < 10 THEN 2 * d ELSE 2 * d - 9)

RefTotal(s) == RefTotalUpTo(s, Len(s))

\* C3: luhn_algorithm returns false on the empty digit string.
C3_EmptyRejected ==
    (pc = "luhn_ret" /\ arg = <<>>) => ret = FALSE

\* C4: for every non-empty digit string luhn_algorithm returns true exactly
\* when the reference total (odd positions from the right unchanged, even
\* positions doubled, less 9 from 10 up) is divisible by 10.
C4_LuhnIsReference ==
    (pc \in {"luhn_ret", "luhn_altered"} /\ arg # <<>>) =>
        (ret = (RefTotal(arg) % 10 = 0))

\* a 16-digit number with doubled digits from 5 up is accepted
C4_Witness ==
    /\ pc = "luhn_ret"
    /\ arg = S(<<4,5,3,2,0,1,5,1,1,2,8,3,0,3,6,6>>)
    /\ ret = TRUE

\* the positions where two strings of the same length differ
Differ(s, u) == {i \in 1..Len(s) : s[i] # u[i]}

\* C9: replacing one digit of a non-empty string luhn_algorithm accepts by a
\* different digit yields a string it rejects.
C9_SingleAlterationRejected ==
    ( /\ pc = "luhn_altered"
      /\ Len(orig) = Len(arg)
      /\ Cardinality(Differ(orig, arg)) = 1
      /\ luhn_algorithm(orig) ) => ret = FALSE

\* 4532015112830366 is accepted and 4532015112830367 rejected
C9_Witness ==
    /\ pc = "luhn_altered"
    /\ orig = S(<<4,5,3,2,0,1,5,1,1,2,8,3,0,3,6,6>>)
    /\ arg = S(<<4,5,3,2,0,1,5,1,1,2,8,3,0,3,6,7>>)
    /\ ret = FALSE

---------------------------------------------------------------------------
(* Properties of identify_card_brand (SpecBrand) *)

\* the order of the rule table
TableOrder ==
    <<"Visa", "MasterCard", "American Express", "Diners Club", "Discover",
      "enRoute", "JCB", "Voyager", "HiperCard", "Aura">>

HasPrefix(s, p) == Len(s) >= Len(p) /\ SubSeq(s, 1, Len(p)) = S(p)

HasAnyPrefix(s, ps) == \E p \in ps : HasPrefix(s, p)

\* the rule table: prefix sets and exact total lengths
TableRule(brand, s) ==
    CASE brand = "Visa" -> HasPrefix(s, <<4>>) /\ Len(s) \in {13, 16}
      [] brand = "MasterCard" ->
           /\ HasAnyPrefix(s, {<<5, d>> : d \in 1..5} \cup {<<2, d>> : d \in 2..7})
           /\ Len(s) = 16
      [] brand = "American Express" ->
           HasAnyPrefix(s, {<<3, 4>>, <<3, 7>>}) /\ Len(s) = 15
      [] brand = "Diners Club" ->
           \/ /\ HasAnyPrefix(s, {<<3, 0, d>> : d \in 0..5} \cup {<<3, 6>>, <<3, 8>>, <<3, 9>>})
              /\ Len(s) = 14
           \/ HasAnyPrefix(s, {<<5, 4>>, <<5, 5>>}) /\ Len(s) = 16
      [] brand = "Discover" ->
           HasAnyPrefix(s, {<<6, 0, 1, 1>>, <<6, 5>>}) /\ Len(s) = 16
      [] brand = "enRoute" ->
           HasAnyPrefix(s, {<<2, 0, 1, 4>>, <<2, 1, 4, 9>>}) /\ Len(s) = 15
      [] brand = "JCB" ->
           \/ HasAnyPrefix(s, {<<2, 1, 3, 1>>, <<1, 8, 0, 0>>}) /\ Len(s) = 15
           \/ HasPrefix(s, <<3, 5>>) /\ Len(s) = 16
      [] brand = "Voyager" -> HasPrefix(s, <<8, 6, 9, 9>>) /\ Len(s) = 15
      [] brand = "HiperCard" ->
           \/ HasPrefix(s, <<6, 0, 6, 2, 8, 2>>) /\ Len(s) \in {16, 19}
           \/ HasPrefix(s, <<3, 8, 4, 1>>) /\ Len(s) = 19
      [] brand = "Aura" -> HasPrefix(s, <<5, 0>>) /\ Len(s) = 16

\* the first brand of the table whose rule s satisfies, or Unidentified
TableBrand(s) ==
    LET hits == {i \in 1..Len(TableOrder) : TableRule(TableOrder[i], s)}
    IN  IF hits = {} THEN Unidentified
        ELSE TableOrder[CHOOSE i \in hits : \A j \in hits : i <= j]

\* C2: on every digit string of 13 to 19 digits identify_card_brand returns
\* the first brand of the rule table whose prefix set and exact length match,
\* and no brand when no rule matches.
C2_AgreesWithTable ==
    (pc = "brand_ret" /\ InRange(clean_card_number(arg))) =>
        ret = TableBrand(clean_card_number(arg))

\* C7: when a string matches the patterns of several rules the brand
\* returned is that of the earliest one in table order; every 16-digit
\* string starting with 54 or 55 is MasterCard and never Diners Club.
C7_EarliestRuleWins ==
    pc = "brand_ret" =>
        LET n == clean_card_number(arg)
        IN  /\ \A i, j \in 1..Len(TableOrder) :
                  (i < j /\ re_match(TableOrder[i], n) /\ re_match(TableOrder[j], n))
                      => ret # TableOrder[j]
            /\ (Len(n) = 16 /\ HasAnyPrefix(n, {<<5, 4>>, <<5, 5>>}))
                  => ret = "MasterCard"

\* a 16-digit string starting with 55 matches both patterns and is MasterCard
C7_Witness ==
    /\ pc = "brand_ret"
    /\ arg = test_numbers[2]
    /\ re_match("MasterCard", arg)
    /\ re_match("Diners Club", arg)
    /\ ret = "MasterCard"

===========================================================================
